---- MODULE Spec2Model ----
(***************************************************************************)
(* LED matrix pixel engine of sense_hat.py (class SenseHat): the RGB565    *)
(* codec, the rotation offset map, the framebuffer operations, the bitmap  *)
(* text renderer, and two threads sharing one driver instance.             *)
(*                                                                         *)
(* A pixel is a triple <<R, G, B>>.  An (8, 8, 3) numpy array is a         *)
(* function on 0..63, entry 8*row + col.  The framebuffer device is the    *)
(* 128-byte stream of the RPi-Sense FB, held as 64 little-endian 16-bit    *)
(* words in physical order.                                                *)
(***************************************************************************)
EXTENDS Integers, Sequences, FiniteSets, TLC

VARIABLES
    rotation,           \* self._rotation
    fb,                 \* content of self._fb_device, word k at bytes 2k, 2k+1
    log,                \* history: one record per public call, oldest first
    pc,                 \* position inside show_message / show_letter
    previous_rotation,  \* local of show_message / show_letter
    scroll_pixels,      \* local scroll_pixels of show_message (pixel_list of
                        \* show_letter): the recoloured rows, 8 pixels each
    i,                  \* loop index of show_message
    writes,             \* history: frames written by the running render
    sleeps,             \* history: time.sleep calls made by the running render
    local,              \* arguments of the running show_message / show_letter
    px, word, out, stage, \* operands of the codec when exercised on its own
    glyph,              \* argument of _trim_whitespace when exercised on its own
    trimmed,            \* what that call returned, once it has
    pc2,                \* position of a second thread inside set_rotation
    local2,             \* locals of the second thread's running call
    log2                \* history: one record per call of the second thread

vars == <<rotation, fb, log, pc, previous_rotation, scroll_pixels, i,
          writes, sleeps, local,
          px, word, out, stage, glyph, trimmed,
          pc2, local2, log2>>

engineVars == <<rotation, fb, log>>
textVars   == <<pc, previous_rotation, scroll_pixels, i, writes, sleeps, local>>
codecVars  == <<px, word, out, stage>>
glyphVars  == <<glyph, trimmed>>
raceVars   == <<pc2, local2, log2>>

-----------------------------------------------------------------------------
(* Bounds of the model *)

MaxOps == 3        \* public calls per behaviour
MaxRounds == 2     \* encode/decode round trips per behaviour of the codec
MaxCalls == 2      \* show_message / show_letter calls per behaviour
MaxOther == 2      \* calls of the second thread per behaviour

-----------------------------------------------------------------------------
(* numpy integer arithmetic *)

Cells  == 0 .. 63
Uint16 == 65536

\* a & b, bit by bit
RECURSIVE bit_and(_, _)
bit_and(a, b) ==
    IF a = 0 \/ b = 0 THEN 0
    ELSE (a % 2) * (b % 2) + 2 * bit_and(a \div 2, b \div 2)

\* the same on bytes, tabulated once
ByteAnd == [a \in 0 .. 255 |-> [b \in 0 .. 255 |-> bit_and(a, b)]]

\* np.bitwise_and on 16-bit operands: the AND of the low bytes and of the high bytes
bitwise_and(a, b) ==
    ByteAnd[a % 256][b % 256] + 256 * ByteAnd[(a \div 256) % 256][(b \div 256) % 256]

left_shift(a, n)  == a * (2 ^ n)
right_shift(a, n) == a \div (2 ^ n)

\* storing a Python integer in a numpy uint16 array keeps it modulo 2^16
as_uint16(v) == v % Uint16

\* the value of an expression, computed once: The({ f(x) : x \in {e} }) is
\* f(e) with e evaluated a single time
The(S) == CHOOSE v \in S : TRUE

-----------------------------------------------------------------------------
(* PixelCodec: _pack_bin and _unpack_bin, one pixel / one word at a time *)

\* _pack_bin with green masked like red, 0xF8 for 0xFC
pack_bin_mask7(p) ==
    ( left_shift(bitwise_and(p[1], 248), 8)
    + left_shift(bitwise_and(p[2], 248), 3)
    + right_shift(p[3], 3) ) % Uint16

pack_bin(p) ==
    ( left_shift(bitwise_and(p[1], 248), 8)
    + left_shift(bitwise_and(p[2], 252), 3)
    + right_shift(p[3], 3) ) % Uint16

unpack_bin(w) ==
    << right_shift(bitwise_and(w, 63488), 8),
       right_shift(bitwise_and(w, 2016), 3),
       left_shift(bitwise_and(w, 31), 3) % Uint16 >>

-----------------------------------------------------------------------------
(* numpy array transforms on an (8, 8, 3) array *)

\* np.rot90(m): result[r][c] = m[c][7 - r]
rot90_once(m) == [k \in Cells |-> m[8 * (k % 8) + (7 - (k \div 8))]]

RECURSIVE rot90(_, _)
rot90(m, k) == IF k = 0 THEN m ELSE The({ rot90(n, k - 1) : n \in {rot90_once(m)} })

\* np.fliplr(m): result[r][c] = m[r][7 - c]
fliplr(m) == [k \in Cells |-> m[8 * (k \div 8) + (7 - (k % 8))]]

\* np.flipud(m): result[r][c] = m[7 - r][c]
flipud(m) == [k \in Cells |-> m[8 * (7 - (k \div 8)) + (k % 8)]]

-----------------------------------------------------------------------------
(* RotationMap *)

Rotations == {0, 90, 180, 270}

xy_rotated(rot, x, y) ==
    CASE rot = 0   -> x + 8 * y
      [] rot = 90  -> 8 + 8 * x - y
      [] rot = 180 -> 72 - x - 8 * y
      [] rot = 270 -> 64 - 8 * x + y

-----------------------------------------------------------------------------
(* The framebuffer device: 128 bytes, no cell beyond word 63 *)

\* f.seek(off * 2); f.write(two bytes): the device refuses a write that
\* starts at or beyond its end, and nothing is stored
device_write2(fbv, off, w) ==
    IF off \in Cells THEN [err |-> "none", fb |-> [fbv EXCEPT ![off] = w]]
    ELSE [err |-> "IOError", fb |-> fbv]

\* f.seek(off * 2); f.read(2): at or beyond the end the read returns no bytes
device_read2(fbv, off) == IF off \in Cells THEN <<fbv[off]>> ELSE <<>>

-----------------------------------------------------------------------------
(* MatrixSurface: what the bulk operations compute *)

Channels(arr) == {arr[k][c] : k \in DOMAIN arr, c \in 1 .. 3}
array_max(arr) == LET S == Channels(arr) IN CHOOSE v \in S : \A u \in S : u <= v
array_min(arr) == LET S == Channels(arr) IN CHOOSE v \in S : \A u \in S : v <= u

\* pixel_list.astype(np.uint16), np.array(pixel_list, dtype=np.uint16)
astype_uint16(pixel_list) ==
    [k \in DOMAIN pixel_list |->
        << as_uint16(pixel_list[k][1]), as_uint16(pixel_list[k][2]),
           as_uint16(pixel_list[k][3]) >>]

\* set_pixels that forgets to rotate the grid before it is packed
set_pixels_norotate(rot, fbv, pixel_list) ==
    IF DOMAIN pixel_list # Cells
    THEN [err |-> "ValueError", fb |-> fbv]
    ELSE The({ IF array_max(arr) > 255 \/ array_min(arr) < 0
               THEN [err |-> "ValueError", fb |-> fbv]
               ELSE [err |-> "none", fb |-> [k \in Cells |-> pack_bin(arr[k])]]
               : arr \in {astype_uint16(pixel_list)} })

\* body of set_pixels: pixel_list is a function on 0 .. n-1 of triples; the
\* result is the exception raised, if any, and the device content left behind
set_pixels_result(rot, fbv, pixel_list) ==
    IF DOMAIN pixel_list # Cells
    THEN [err |-> "ValueError", fb |-> fbv]
    ELSE The({ IF array_max(arr) > 255 \/ array_min(arr) < 0
               THEN [err |-> "ValueError", fb |-> fbv]
               ELSE The({ [err |-> "none", fb |-> [k \in Cells |-> pack_bin(rotated[k])]]
                          : rotated \in {IF rot > 0 THEN rot90(arr, rot \div 90) ELSE arr} })
               : arr \in {astype_uint16(pixel_list)} })

\* get_pixels that forgets to rotate the grid back
get_pixels_unrotated(rot, fbv) == [k \in Cells |-> unpack_bin(fbv[k])]

get_pixels_result(rot, fbv) ==
    The({ IF rot > 0 THEN rot90(pixel_list, (360 - rot) \div 90) ELSE pixel_list
          : pixel_list \in {[k \in Cells |-> unpack_bin(fbv[k])]} })

-----------------------------------------------------------------------------
(* History of calls *)

Record(op, args, ret, err) ==
    [op |-> op, args |-> args, rotation |-> rotation, fb |-> fb,
     ret |-> ret, err |-> err]

NoCall == [op |-> "none"]

Idle == pc = "idle" /\ Len(log) < MaxOps

-----------------------------------------------------------------------------
(* MatrixSurface: the public operations *)

set_rotation(r, redraw) ==
    /\ Idle
    /\ IF r \in Rotations
       THEN IF redraw
            THEN LET pixel_list == get_pixels_result(rotation, fb)
                     res == set_pixels_result(r, fb, pixel_list)
                 IN  /\ rotation' = r
                     /\ fb' = res.fb
                     /\ log' = Append(log, Record("set_rotation", <<r, redraw>>, "None", res.err))
            ELSE /\ rotation' = r
                 /\ fb' = fb
                 /\ log' = Append(log, Record("set_rotation", <<r, redraw>>, "None", "none"))
       ELSE /\ UNCHANGED <<rotation, fb>>
            /\ log' = Append(log, Record("set_rotation", <<r, redraw>>, "None", "ValueError"))
    /\ UNCHANGED <<textVars, codecVars, glyphVars, raceVars>>

set_pixels(pixel_list) ==
    /\ Idle
    /\ LET res == set_pixels_result(rotation, fb, pixel_list)
       IN  /\ fb' = res.fb
           /\ log' = Append(log, Record("set_pixels", pixel_list, "None", res.err))
    /\ UNCHANGED <<rotation, textVars, codecVars, glyphVars, raceVars>>

get_pixels ==
    /\ Idle
    /\ log' = Append(log, Record("get_pixels", <<>>, get_pixels_result(rotation, fb), "none"))
    /\ UNCHANGED <<rotation, fb, textVars, codecVars, glyphVars, raceVars>>

flip_h(redraw) ==
    /\ Idle
    /\ LET flipped == fliplr(get_pixels_result(rotation, fb))
           res == IF redraw THEN set_pixels_result(rotation, fb, flipped)
                  ELSE [err |-> "none", fb |-> fb]
       IN  /\ fb' = res.fb
           /\ log' = Append(log, Record("flip_h", <<redraw>>,
                                        IF res.err = "none" THEN flipped ELSE "None", res.err))
    /\ UNCHANGED <<rotation, textVars, codecVars, glyphVars, raceVars>>

flip_v(redraw) ==
    /\ Idle
    /\ LET flipped == flipud(get_pixels_result(rotation, fb))
           res == IF redraw THEN set_pixels_result(rotation, fb, flipped)
                  ELSE [err |-> "none", fb |-> fb]
       IN  /\ fb' = res.fb
           /\ log' = Append(log, Record("flip_v", <<redraw>>,
                                        IF res.err = "none" THEN flipped ELSE "None", res.err))
    /\ UNCHANGED <<rotation, textVars, codecVars, glyphVars, raceVars>>

\* args is the tuple of positional arguments after x and y
set_pixel(x, y, args) ==
    /\ Idle
    /\ LET shape_ok == (Len(args) = 1 /\ Len(args[1]) = 3) \/ Len(args) = 3
           pixel == IF Len(args) = 1 THEN args[1] ELSE args
           valid == /\ shape_ok
                    /\ ~(x > 7 \/ x < 0)
                    /\ ~(y > 7 \/ y < 0)
                    /\ \A c \in 1 .. 3 : ~(pixel[c] > 255 \/ pixel[c] < 0)
           res == IF valid
                  THEN device_write2(fb, xy_rotated(rotation, x, y), pack_bin(pixel))
                  ELSE [err |-> "ValueError", fb |-> fb]
       IN  /\ fb' = res.fb
           /\ log' = Append(log, Record("set_pixel", <<x, y, args>>, "None", res.err))
    /\ UNCHANGED <<rotation, textVars, codecVars, glyphVars, raceVars>>

get_pixel(x, y) ==
    /\ Idle
    /\ IF (x > 7 \/ x < 0) \/ (y > 7 \/ y < 0)
       THEN log' = Append(log, Record("get_pixel", <<x, y>>, "None", "ValueError"))
       ELSE LET bytes == device_read2(fb, xy_rotated(rotation, x, y))
            IN  IF Len(bytes) = 0
                THEN log' = Append(log, Record("get_pixel", <<x, y>>, "None", "IndexError"))
                ELSE log' = Append(log, Record("get_pixel", <<x, y>>,
                                               unpack_bin(bytes[1]), "none"))
    /\ UNCHANGED <<rotation, fb, textVars, codecVars, glyphVars, raceVars>>

clear(args) ==
    /\ Idle
    /\ IF Len(args) \in {0, 1, 3}
       THEN LET colour == IF Len(args) = 0 THEN <<0, 0, 0>>
                          ELSE IF Len(args) = 1 THEN args[1] ELSE args
                res == set_pixels_result(rotation, fb, [k \in Cells |-> colour])
            IN  /\ fb' = res.fb
                /\ log' = Append(log, Record("clear", args, "None", res.err))
       ELSE /\ fb' = fb
            /\ log' = Append(log, Record("clear", args, "None", "ValueError"))
    /\ UNCHANGED <<rotation, textVars, codecVars, glyphVars, raceVars>>

-----------------------------------------------------------------------------
(* Inputs of the pixel engine *)

\* contents the device may hold when the driver is constructed
FbInputs ==
    { [k \in Cells |-> 0],
      [k \in Cells |-> (1031 * k + 77) % Uint16] }

\* a grid whose 64 cells stay pairwise distinct after quantization
GradientGrid == [k \in Cells |-> << 8 * (k % 8) + 1, 4 * (k \div 8) + 3, 7 >>]

GridInputs ==
    { GradientGrid,
      [GradientGrid EXCEPT ![5] = <<256, 0, 0>>],
      [GradientGrid EXCEPT ![5] = <<0, 0, 65536>>],
      [GradientGrid EXCEPT ![5] = <<-1, 0, 0>>],
      [k \in 0 .. 62 |-> GradientGrid[k]] }

\* (r, redraw) for set_rotation
SetRotationInputs ==
    (Rotations \X {TRUE}) \cup {<<90, FALSE>>, <<45, TRUE>>, <<45, FALSE>>}

\* (x, y, args) for set_pixel
SetPixelInputs ==
    ({<<0, 0>>, <<7, 0>>, <<0, 7>>, <<7, 7>>, <<3, 4>>} \X { << <<255, 131, 7>> >> })
    \cup ({<<-1, 0>>, <<8, 0>>, <<0, -1>>, <<0, 8>>} \X { << <<255, 131, 7>> >> })
    \cup ({<<3, 4>>} \X { <<12, 34, 56>>, << <<256, 0, 0>> >>, <<0, -1, 0>>, <<1, 2>> })

GetPixelInputs ==
    {<<0, 0>>, <<7, 0>>, <<0, 7>>, <<7, 7>>, <<3, 4>>, <<-1, 0>>, <<0, 8>>}

ClearInputs == { <<>>, << <<10, 20, 30>> >>, <<1, 2>>, << <<0, 256, 0>> >> }

-----------------------------------------------------------------------------
(* The pixel engine: every MatrixSurface operation, called in any order *)

Init ==
    /\ rotation = 0
    /\ fb \in FbInputs
    /\ log = <<>>
    /\ pc = "idle"
    /\ previous_rotation = 0
    /\ scroll_pixels = <<>>
    /\ i = 0
    /\ writes = 0
    /\ sleeps = 0
    /\ local = NoCall
    /\ px = <<0, 0, 0>>
    /\ word = 0
    /\ out = <<0, 0, 0>>
    /\ stage = [at |-> "unused", round |-> 0]
    /\ glyph = <<>>
    /\ trimmed = [returned |-> FALSE, rows |-> <<>>]
    /\ pc2 = "idle"
    /\ local2 = NoCall
    /\ log2 = <<>>

Next ==
    \/ \E a \in SetRotationInputs : set_rotation(a[1], a[2])
    \/ \E g \in GridInputs : set_pixels(g)
    \/ get_pixels
    \/ \E a \in SetPixelInputs : set_pixel(a[1][1], a[1][2], a[2])
    \/ \E c \in GetPixelInputs : get_pixel(c[1], c[2])
    \/ \E redraw \in BOOLEAN : flip_h(redraw)
    \/ \E redraw \in BOOLEAN : flip_v(redraw)
    \/ \E a \in ClearInputs : clear(a)

Spec == Init /\ [][Next]_vars

-----------------------------------------------------------------------------
(* The bulk operations alone: rotation changes, flips and whole-grid writes *)

NextBulk ==
    \/ \E a \in SetRotationInputs : set_rotation(a[1], a[2])
    \/ \E redraw \in BOOLEAN : flip_h(redraw)
    \/ \E redraw \in BOOLEAN : flip_v(redraw)
    \/ set_pixels(GradientGrid)
    \/ get_pixels

SpecBulk == Init /\ [][NextBulk]_vars

-----------------------------------------------------------------------------
(* GlyphStore: _text_dict, _get_char_pixels, _trim_whitespace *)

White == <<255, 255, 255>>
Black == <<0, 0, 0>>

BlackRow == [c \in 1 .. 8 |-> Black]
Row(cols, p) == [c \in 1 .. 8 |-> IF c \in cols THEN p ELSE Black]

\* a font atlas: each character a (5, 8, 3) block, here 5 rows of 8 pixels.
\* "A" has an interior black row, " " is all black, "r" is drawn in colours
\* other than pure white.
text_dict ==
    [ch \in {"?", "A", " ", "r"} |->
        CASE ch = "?" -> << BlackRow, Row({2, 7}, White), Row({1, 4, 6}, White),
                            Row({2, 3}, White), BlackRow >>
          [] ch = "A" -> << Row({1, 2, 3, 4, 5, 6}, White), BlackRow,
                            Row({1, 2, 3, 4, 5, 6}, White), BlackRow, BlackRow >>
          [] ch = " " -> << BlackRow, BlackRow, BlackRow, BlackRow, BlackRow >>
          [] ch = "r" -> << BlackRow, BlackRow,
                            [c \in 1 .. 8 |-> CASE c = 1 -> White
                                                [] c = 2 -> <<255, 0, 0>>
                                                [] c = 3 -> <<254, 254, 254>>
                                                [] c = 4 -> <<0, 255, 255>>
                                                [] OTHER -> Black],
                            Row({5}, White), BlackRow >>]

\* s is a Python string, modelled as the sequence of its characters
get_char_pixels(s) ==
    IF Len(s) = 1 /\ s[1] \in DOMAIN text_dict THEN text_dict[s[1]] ELSE text_dict["?"]

row_sum(row) == LET RECURSIVE upto(_)
                    upto(c) == IF c = 0 THEN 0
                               ELSE row[c][1] + row[c][2] + row[c][3] + upto(c - 1)
                IN  upto(8)

\* _trim_whitespace with slice_to = i for i + 1: the last lit row is cut off
trim_whitespace_short(char) ==
    IF \E r \in 1 .. 5 : row_sum(char[r]) > 0
    THEN LET slice_from == CHOOSE r \in 1 .. 5 :
                               /\ row_sum(char[r]) > 0
                               /\ \A q \in 1 .. r - 1 : ~(row_sum(char[q]) > 0)
             slice_to   == CHOOSE r \in 1 .. 5 :
                               /\ row_sum(char[r]) > 0
                               /\ \A q \in r + 1 .. 5 : ~(row_sum(char[q]) > 0)
         IN  SubSeq(char, slice_from, slice_to - 1)
    ELSE char

trim_whitespace(char) ==
    IF \E r \in 1 .. 5 : row_sum(char[r]) > 0
    THEN LET slice_from == CHOOSE r \in 1 .. 5 :
                               /\ row_sum(char[r]) > 0
                               /\ \A q \in 1 .. r - 1 : ~(row_sum(char[q]) > 0)
             slice_to   == CHOOSE r \in 1 .. 5 :
                               /\ row_sum(char[r]) > 0
                               /\ \A q \in r + 1 .. 5 : ~(row_sum(char[q]) > 0)
         IN  SubSeq(char, slice_from, slice_to)
    ELSE char

-----------------------------------------------------------------------------
(* TextRenderer: building and recolouring the pixels *)

string_padding == [r \in 1 .. 8 |-> BlackRow]
letter_padding == <<BlackRow>>

\* lines 413-417: padding, then each character trimmed and followed by one
\* blank row, then padding
RECURSIVE append_chars(_, _)
append_chars(pixels, text_string) ==
    IF text_string = <<>> THEN pixels
    ELSE append_chars(pixels \o trim_whitespace(get_char_pixels(<<Head(text_string)>>))
                             \o letter_padding,
                      Tail(text_string))

scroll_source(text_string) == append_chars(string_padding, text_string) \o string_padding

\* lines 448-449: an 8 x 8 black grid with the glyph in rows 1..5
letter_source(s) ==
    [r \in 1 .. 8 |-> IF r \in 2 .. 6 THEN get_char_pixels(s)[r - 1] ELSE BlackRow]

colour_uint16(colour) == << as_uint16(colour[1]), as_uint16(colour[2]), as_uint16(colour[3]) >>

\* np.where(pixels == [255, 255, 255]) compares channel by channel and yields
\* one (row, column) index per matching channel; those pixels get text_colour,
\* every other one keeps back_colour
recolour(pixels, text_colour, back_colour) ==
    [r \in 1 .. Len(pixels) |->
        [c \in 1 .. 8 |->
            IF \E ch \in 1 .. 3 : pixels[r][c][ch] = White[ch]
            THEN colour_uint16(text_colour)
            ELSE colour_uint16(back_colour)]]

\* scroll_pixels[i:i+8] as an (8, 8, 3) array
window(pixels, first) == [k \in Cells |-> pixels[first + 1 + (k \div 8)][1 + (k % 8)]]

\* range(scroll_length - 8), one frame short
frame_count_short(scroll_length) == scroll_length - 9

\* range(scroll_length - 8): the number of frames of one show_message
frame_count(scroll_length) == scroll_length - 8

\* the decrement of line 407 turning the other way
rotate_right(rot) == rot + 90

\* self._rotation -= 90
rotate_left(rot) == rot - 90

\* the wrap of line 409 going to 0 for 270
wrap_rotation_zero(rot) == IF rot < 0 THEN 0 ELSE rot

\* if self._rotation < 0: self._rotation = 270
wrap_rotation(rot) == IF rot < 0 THEN 270 ELSE rot

Finish(err) == log' = [log EXCEPT ![Len(log)].err = err]

-----------------------------------------------------------------------------
(* TextRenderer: show_message, statement by statement *)

\* lines 406-407
show_message(text_string, text_colour, back_colour) ==
    /\ pc = "idle"
    /\ Len(log) < MaxCalls
    /\ previous_rotation' = rotation
    /\ rotation' = rotate_left(rotation)
    /\ local' = [op |-> "show_message", text_string |-> text_string,
                 text_colour |-> text_colour, back_colour |-> back_colour]
    /\ log' = Append(log, Record("show_message", <<text_string, text_colour, back_colour>>,
                                 "None", "running"))
    /\ pc' = "sm_wrap"
    /\ writes' = 0
    /\ sleeps' = 0
    /\ UNCHANGED <<fb, scroll_pixels, i, codecVars, glyphVars, raceVars>>

\* lines 408-423
show_message_build ==
    /\ pc = "sm_wrap"
    /\ rotation' = wrap_rotation(rotation)
    /\ scroll_pixels' = The({ recolour(source, local.text_colour, local.back_colour)
                               : source \in {scroll_source(local.text_string)} })
    /\ i' = 0
    /\ pc' = "sm_loop"
    /\ UNCHANGED <<fb, log, previous_rotation, writes, sleeps, local, codecVars, glyphVars, raceVars>>

\* line 425, for the next i of line 424; an exception leaves the method here
show_message_frame ==
    /\ pc = "sm_loop"
    /\ i < frame_count(Len(scroll_pixels))
    /\ \E res \in { set_pixels_result(rotation, fb, frame)
                     : frame \in {window(scroll_pixels, i)} } :
           IF res.err = "none"
           THEN /\ fb' = res.fb
                /\ writes' = writes + 1
                /\ pc' = "sm_sleep"
                /\ UNCHANGED <<log, local>>
           ELSE /\ Finish(res.err)
                /\ pc' = "idle"
                /\ local' = NoCall
                /\ UNCHANGED <<fb, writes>>
    /\ UNCHANGED <<rotation, previous_rotation, scroll_pixels, i, sleeps, codecVars, glyphVars, raceVars>>

\* line 426
show_message_sleep ==
    /\ pc = "sm_sleep"
    /\ sleeps' = sleeps + 1
    /\ i' = i + 1
    /\ pc' = "sm_loop"
    /\ UNCHANGED <<engineVars, previous_rotation, scroll_pixels, writes, local, codecVars, glyphVars, raceVars>>

\* line 427, once the range of line 424 is exhausted
show_message_end ==
    /\ pc = "sm_loop"
    /\ ~(i < frame_count(Len(scroll_pixels)))
    /\ rotation' = previous_rotation
    /\ Finish("none")
    /\ pc' = "idle"
    /\ local' = NoCall
    /\ UNCHANGED <<fb, previous_rotation, scroll_pixels, i, writes, sleeps, codecVars, glyphVars, raceVars>>

-----------------------------------------------------------------------------
(* TextRenderer: show_letter, statement by statement *)

\* lines 440-445
show_letter(s, text_colour, back_colour) ==
    /\ pc = "idle"
    /\ Len(log) < MaxCalls
    /\ IF Len(s) > 1
       THEN /\ log' = Append(log, Record("show_letter", <<s, text_colour, back_colour>>,
                                         "None", "ValueError"))
            /\ UNCHANGED <<rotation, textVars>>
       ELSE /\ previous_rotation' = rotation
            /\ rotation' = rotate_left(rotation)
            /\ local' = [op |-> "show_letter", s |-> s,
                         text_colour |-> text_colour, back_colour |-> back_colour]
            /\ log' = Append(log, Record("show_letter", <<s, text_colour, back_colour>>,
                                         "None", "running"))
            /\ pc' = "sl_wrap"
            /\ writes' = 0
            /\ sleeps' = 0
            /\ UNCHANGED <<scroll_pixels, i>>
    /\ UNCHANGED <<fb, codecVars, glyphVars, raceVars>>

\* lines 446-455; an exception raised by set_pixels leaves the method here
show_letter_draw ==
    /\ pc = "sl_wrap"
    /\ \E pixel_list \in { recolour(source, local.text_colour, local.back_colour)
                             : source \in {letter_source(local.s)} } :
       \E res \in { set_pixels_result(wrap_rotation(rotation), fb, frame)
                     : frame \in {window(pixel_list, 0)} } :
           /\ rotation' = wrap_rotation(rotation)
           /\ scroll_pixels' = pixel_list
           /\ IF res.err = "none"
              THEN /\ fb' = res.fb
                   /\ writes' = writes + 1
                   /\ pc' = "sl_restore"
                   /\ UNCHANGED <<log, local>>
              ELSE /\ Finish(res.err)
                   /\ pc' = "idle"
                   /\ local' = NoCall
                   /\ UNCHANGED <<fb, writes>>
    /\ UNCHANGED <<previous_rotation, i, sleeps, codecVars, glyphVars, raceVars>>

\* line 456
show_letter_end ==
    /\ pc = "sl_restore"
    /\ rotation' = previous_rotation
    /\ Finish("none")
    /\ pc' = "idle"
    /\ local' = NoCall
    /\ UNCHANGED <<fb, previous_rotation, scroll_pixels, i, writes, sleeps, codecVars, glyphVars, raceVars>>

-----------------------------------------------------------------------------
(* The text renderer, called at any rotation *)

Red  == <<255, 0, 0>>
Blue == <<0, 0, 255>>

\* (text_colour, back_colour)
ColourInputs == { <<Red, Blue>>, << <<256, 0, 0>>, Black >> }

TextInputs == { <<>>, <<"A", " ">>, <<"r", "Z">> }

LetterInputs == { <<>>, <<"A">>, <<"r">>, <<"A", "B">> }

TextRotationInputs == {<<90, FALSE>>, <<180, TRUE>>, <<270, FALSE>>, <<45, TRUE>>}

InitText == Init /\ fb = [k \in Cells |-> 0]

\* the statements of a call that is under way
Render ==
    \/ show_message_build
    \/ show_message_frame
    \/ show_message_sleep
    \/ show_message_end
    \/ show_letter_draw
    \/ show_letter_end

NextText ==
    \/ \E a \in TextRotationInputs : set_rotation(a[1], a[2])
    \/ \E t \in TextInputs, c \in ColourInputs : show_message(t, c[1], c[2])
    \/ \E s \in LetterInputs, c \in ColourInputs : show_letter(s, c[1], c[2])
    \/ Render

SpecText == InitText /\ [][NextText]_vars

\* a call that has started runs on: its thread executes the next statement,
\* and time.sleep returns
SpecTextLive == SpecText /\ WF_vars(Render)

-----------------------------------------------------------------------------
(* Two threads on one driver instance, no lock: one runs a single
   show_message or show_letter, the other calls set_rotation and set_pixels.
   A thread is switched out between two statements of a method; a set_pixels
   call (lines 262-265) runs as one statement. *)

\* where the render thread is when the second thread touches the driver
RenderPhase ==
    IF log = <<>> THEN "before" ELSE IF pc = "idle" THEN "after" ELSE "during"

\* rotation, fb: the field and the device before the second thread's write;
\* after: the device once it has written; entered: the rotation the render
\* under way saved at line 406 (444)
OtherRecord(op, args, err, after) ==
    [op |-> op, args |-> args, err |-> err, rotation |-> rotation, fb |-> fb,
     after |-> after, render |-> RenderPhase, at |-> pc,
     entered |-> previous_rotation]

OtherIdle == pc2 = "idle" /\ Len(log2) < MaxOther

\* lines 262-265 in the second thread
other_set_pixels(pixel_list) ==
    /\ OtherIdle
    /\ \E res \in {set_pixels_result(rotation, fb, pixel_list)} :
          /\ fb' = res.fb
          /\ log2' = Append(log2, OtherRecord("set_pixels", pixel_list, res.err, res.fb))
    /\ UNCHANGED <<rotation, log, textVars, codecVars, glyphVars, pc2, local2>>

\* lines 174-176 in the second thread
other_set_rotation(r, redraw) ==
    /\ OtherIdle
    /\ IF r \in Rotations
       THEN /\ local2' = [op |-> "set_rotation", r |-> r, redraw |-> redraw,
                          pixel_list |-> IF redraw THEN get_pixels_result(rotation, fb)
                                         ELSE <<>>]
            /\ pc2' = "sr_store"
            /\ log2' = Append(log2, OtherRecord("set_rotation", <<r, redraw>>, "running", fb))
       ELSE /\ log2' = Append(log2, OtherRecord("set_rotation", <<r, redraw>>, "ValueError", fb))
            /\ UNCHANGED <<pc2, local2>>
    /\ UNCHANGED <<rotation, fb, log, textVars, codecVars, glyphVars>>

\* line 177
other_set_rotation_store ==
    /\ pc2 = "sr_store"
    /\ rotation' = local2.r
    /\ IF local2.redraw
       THEN /\ pc2' = "sr_redraw"
            /\ log2' = [log2 EXCEPT ![Len(log2)] =
                           OtherRecord("set_rotation", @.args, "running", fb)]
            /\ UNCHANGED local2
       ELSE /\ pc2' = "idle"
            /\ log2' = [log2 EXCEPT ![Len(log2)] =
                           OtherRecord("set_rotation", @.args, "none", fb)]
            /\ local2' = NoCall
    /\ UNCHANGED <<fb, log, textVars, codecVars, glyphVars>>

\* lines 178-179
other_set_rotation_redraw ==
    /\ pc2 = "sr_redraw"
    /\ \E res \in {set_pixels_result(rotation, fb, local2.pixel_list)} :
          /\ fb' = res.fb
          /\ log2' = [log2 EXCEPT ![Len(log2)].err = res.err,
                                  ![Len(log2)].after = res.fb]
    /\ pc2' = "idle"
    /\ local2' = NoCall
    /\ UNCHANGED <<rotation, log, textVars, codecVars, glyphVars>>

RaceRotationInputs == {<<180, FALSE>>, <<90, TRUE>>, <<45, TRUE>>}

NextRace ==
    \/ (log = <<>> /\ show_message(<<>>, Red, Blue))
    \/ (log = <<>> /\ show_letter(<<"A">>, Red, Blue))
    \/ Render
    \/ \E a \in RaceRotationInputs : other_set_rotation(a[1], a[2])
    \/ other_set_rotation_store
    \/ other_set_rotation_redraw
    \/ other_set_pixels(GradientGrid)

SpecRace == InitText /\ [][NextRace]_vars

-----------------------------------------------------------------------------
(* The codec on its own: a pixel is packed, unpacked, and the result fed
   back in *)

ChannelInputs == {0, 1, 3, 4, 7, 8, 9, 16, 127, 128, 248, 251, 252, 255}

PixelInputs ==
    {<<v, v, v>> : v \in 0 .. 255}
    \cup (ChannelInputs \X ChannelInputs \X ChannelInputs)

InitCodec ==
    /\ rotation = 0
    /\ fb = [k \in Cells |-> 0]
    /\ log = <<>>
    /\ pc = "idle"
    /\ previous_rotation = 0
    /\ scroll_pixels = <<>>
    /\ i = 0
    /\ writes = 0
    /\ sleeps = 0
    /\ local = NoCall
    /\ px \in PixelInputs
    /\ word = 0
    /\ out = <<0, 0, 0>>
    /\ stage = [at |-> "pixel", round |-> 1]
    /\ glyph = <<>>
    /\ trimmed = [returned |-> FALSE, rows |-> <<>>]
    /\ pc2 = "idle"
    /\ local2 = NoCall
    /\ log2 = <<>>

codec_pack ==
    /\ stage.at = "pixel"
    /\ word' = pack_bin(px)
    /\ stage' = [stage EXCEPT !.at = "packed"]
    /\ UNCHANGED <<px, out, engineVars, textVars, glyphVars, raceVars>>

codec_unpack ==
    /\ stage.at = "packed"
    /\ out' = unpack_bin(word)
    /\ stage' = [stage EXCEPT !.at = "unpacked"]
    /\ UNCHANGED <<px, word, engineVars, textVars, glyphVars, raceVars>>

codec_again ==
    /\ stage.at = "unpacked"
    /\ stage.round < MaxRounds
    /\ px' = out
    /\ stage' = [at |-> "pixel", round |-> stage.round + 1]
    /\ UNCHANGED <<word, out, engineVars, textVars, glyphVars, raceVars>>

NextCodec == codec_pack \/ codec_unpack \/ codec_again

SpecCodec == InitCodec /\ [][NextCodec]_vars

-----------------------------------------------------------------------------
(* The glyph trimmer on its own: _trim_whitespace applied to one (5, 8, 3)
   block of the atlas *)

\* a row of a glyph: dark, lit in white, or carrying a single channel of 1
RowInputs == { BlackRow, Row({1}, White), Row({8}, <<0, 0, 1>>) }

\* every block of 5 such rows, and the blocks of the font atlas
GlyphInputs ==
    { <<a, b, c, d, e>> : a \in RowInputs, b \in RowInputs, c \in RowInputs,
                          d \in RowInputs, e \in RowInputs }
    \cup { text_dict[ch] : ch \in DOMAIN text_dict }

InitGlyph ==
    /\ rotation = 0
    /\ fb = [k \in Cells |-> 0]
    /\ log = <<>>
    /\ pc = "idle"
    /\ previous_rotation = 0
    /\ scroll_pixels = <<>>
    /\ i = 0
    /\ writes = 0
    /\ sleeps = 0
    /\ local = NoCall
    /\ px = <<0, 0, 0>>
    /\ word = 0
    /\ out = <<0, 0, 0>>
    /\ stage = [at |-> "unused", round |-> 0]
    /\ glyph \in GlyphInputs
    /\ trimmed = [returned |-> FALSE, rows |-> <<>>]
    /\ pc2 = "idle"
    /\ local2 = NoCall
    /\ log2 = <<>>

glyph_trim ==
    /\ ~trimmed.returned
    /\ trimmed' = [returned |-> TRUE, rows |-> trim_whitespace(glyph)]
    /\ UNCHANGED <<glyph, engineVars, textVars, codecVars, raceVars>>

NextGlyph == glyph_trim

SpecGlyph == InitGlyph /\ [][NextGlyph]_vars

-----------------------------------------------------------------------------
(* Vocabulary of the properties *)

\* The log only grows, so a property of the latest call that holds in every
\* reachable state holds of every call of every behaviour.
Calls == IF Len(log) = 0 THEN {} ELSE {Len(log)}

\* the framebuffer as call n left it
FbAfter(n) == IF n < Len(log) THEN log[n + 1].fb ELSE fb
RotationAfter(n) == IF n < Len(log) THEN log[n + 1].rotation ELSE rotation

\* RGB565 quantization stated arithmetically: R and B lose 3 bits, G loses 2
Quantized(p) == << p[1] - (p[1] % 8), p[2] - (p[2] % 4), p[3] - (p[3] % 8) >>

InRange(p) == \A c \in 1 .. 3 : p[c] \in 0 .. 255
OnMatrix(x, y) == x \in 0 .. 7 /\ y \in 0 .. 7

\* the pixel a set_pixel call was given, when its arguments have a valid shape
PixelArg(args) == IF Len(args) = 1 THEN args[1] ELSE args
ValidSetPixel(c) ==
    /\ c.op = "set_pixel"
    /\ OnMatrix(c.args[1], c.args[2])
    /\ (Len(c.args[3]) = 3 \/ (Len(c.args[3]) = 1 /\ Len(c.args[3][1]) = 3))
    /\ InRange(PixelArg(c.args[3]))

-----------------------------------------------------------------------------
(* C1: under every rotation, set_pixel(x, y, c) followed by get_pixel(x, y)
   returns the RGB565-quantized c, and the set_pixel call changes no cell of
   the framebuffer other than the one it addresses. *)
C1_SetThenGet ==
    \A n \in Calls :
        (n > 1 /\ ValidSetPixel(log[n - 1]) /\ log[n].op = "get_pixel"
               /\ log[n].args = <<log[n - 1].args[1], log[n - 1].args[2]>>)
        => /\ log[n - 1].err = "none"
           /\ log[n].err = "none"
           /\ log[n].ret = Quantized(PixelArg(log[n - 1].args[3]))
           /\ Cardinality({k \in Cells : log[n].fb[k] # log[n - 1].fb[k]}) <= 1

(* C2: the bulk path and the per-cell path address the same cells: after
   set_pixels(g), get_pixel(x, y) is the quantized g[8y + x]; after
   set_pixel(x, y, c), entry 8y + x of get_pixels() is the quantized c. *)
C2_BulkAgreesWithPerCell ==
    \A n \in Calls :
        /\ (n > 1 /\ log[n - 1].op = "set_pixels" /\ log[n - 1].err = "none"
                  /\ log[n].op = "get_pixel" /\ OnMatrix(log[n].args[1], log[n].args[2]))
           => /\ log[n].err = "none"
              /\ log[n].ret = Quantized(log[n - 1].args[8 * log[n].args[2] + log[n].args[1]])
        /\ (n > 1 /\ ValidSetPixel(log[n - 1]) /\ log[n].op = "get_pixels")
           => log[n].ret[8 * log[n - 1].args[2] + log[n - 1].args[1]]
                = Quantized(PixelArg(log[n - 1].args[3]))

(* C3: for the current rotation, (x, y) -> _xy_rotated(x, y) maps the 64
   coordinates of [0,7] x [0,7] one-to-one onto 0..63. *)
C3_OffsetBijection ==
    rotation \in Rotations =>
        /\ \A x, y \in 0 .. 7 : xy_rotated(rotation, x, y) \in Cells
        /\ \A x1, y1, x2, y2 \in 0 .. 7 :
              xy_rotated(rotation, x1, y1) = xy_rotated(rotation, x2, y2)
                  => (x1 = x2 /\ y1 = y2)

(* C5: set_pixels given a grid with a channel outside [0,255] raises and
   writes nothing; set_pixel given x or y outside [0,7] or a channel outside
   [0,255] raises ValueError and writes nothing. *)
C5_OutOfRangeRejected ==
    \A n \in Calls :
        /\ (log[n].op = "set_pixels"
              /\ \E k \in DOMAIN log[n].args : ~InRange(log[n].args[k]))
           => (log[n].err # "none" /\ FbAfter(n) = log[n].fb)
        /\ (log[n].op = "set_pixel"
              /\ (Len(log[n].args[3]) = 3 \/ (Len(log[n].args[3]) = 1 /\ Len(log[n].args[3][1]) = 3))
              /\ (~OnMatrix(log[n].args[1], log[n].args[2]) \/ ~InRange(PixelArg(log[n].args[3]))))
           => (log[n].err = "ValueError" /\ FbAfter(n) = log[n].fb)

(* C7: set_rotation with redraw keeps the logical image: get_pixels() gives
   the same grid after the call as before it; and when the next call is a
   set_rotation with redraw back to the first rotation, the framebuffer is
   again, word for word, what it was before the first of the two calls. *)
RedrawnRotation(c) ==
    c.op = "set_rotation" /\ c.args[1] \in Rotations /\ c.args[2]

C7_RotationRoundTrip ==
    \A n \in Calls :
        RedrawnRotation(log[n]) =>
            /\ log[n].err = "none"
            /\ RotationAfter(n) = log[n].args[1]
            /\ get_pixels_result(RotationAfter(n), FbAfter(n))
                 = get_pixels_result(log[n].rotation, log[n].fb)
            /\ (n > 1 /\ RedrawnRotation(log[n - 1])
                      /\ log[n].args[1] = log[n - 1].rotation)
               => FbAfter(n) = log[n - 1].fb

\* two redrawn rotations r0 -> r1 -> r0 with r0 # 0, r1 # r0, on an image
\* that the first of them physically moved
C7_Witness ==
    \E n \in Calls :
        /\ n > 1
        /\ RedrawnRotation(log[n - 1]) /\ RedrawnRotation(log[n])
        /\ log[n - 1].rotation # 0
        /\ log[n - 1].args[1] # log[n - 1].rotation
        /\ log[n].args[1] = log[n - 1].rotation
        /\ log[n].fb # log[n - 1].fb
        /\ FbAfter(n) = log[n - 1].fb

(* C8: flip_h called twice with redraw leaves the framebuffer and the output
   of get_pixels() as they were before the first call, under every rotation;
   likewise flip_v called twice. *)
C8_FlipInvolution ==
    \A n \in Calls :
        (n > 1 /\ log[n].op \in {"flip_h", "flip_v"} /\ log[n - 1].op = log[n].op
               /\ log[n - 1].args[1] /\ log[n].args[1])
        => /\ log[n - 1].err = "none" /\ log[n].err = "none"
           /\ FbAfter(n) = log[n - 1].fb
           /\ get_pixels_result(RotationAfter(n), FbAfter(n))
                = get_pixels_result(log[n - 1].rotation, log[n - 1].fb)
           /\ log[n].ret = get_pixels_result(log[n - 1].rotation, log[n - 1].fb)

\* flip_h twice with redraw under a rotation other than 0, the first flip
\* having changed the framebuffer
C8_Witness ==
    \E n \in Calls :
        /\ n > 1
        /\ log[n - 1].op = "flip_h" /\ log[n].op = "flip_h"
        /\ log[n - 1].args[1] /\ log[n].args[1]
        /\ log[n].rotation # 0
        /\ log[n].fb # log[n - 1].fb
        /\ FbAfter(n) = log[n - 1].fb

(* C6: _pack_bin of a pixel with channels in [0,255] is the 16-bit word with
   R's top 5 bits in bits 11-15, G's top 6 bits in bits 5-10 and B's top 5
   bits in bits 0-4; _unpack_bin of that word is (R - R mod 8, G - G mod 4,
   B - B mod 8); packing and unpacking that result returns it unchanged. *)
C6_CodecRoundTrip ==
    /\ stage.at \in {"packed", "unpacked"}
       => word = 2048 * (px[1] \div 8) + 32 * (px[2] \div 4) + (px[3] \div 8)
    /\ stage.at = "unpacked"
       => /\ out = Quantized(px)
          /\ stage.round > 1 => out = px

\* a second round trip has been completed
C6_Witness ==
    /\ stage.at = "unpacked"
    /\ stage.round = 2
    /\ out = <<248, 128, 8>>
    /\ word = 2048 * 31 + 32 * 32 + 1

-----------------------------------------------------------------------------
(* Vocabulary of the text properties *)

LastCall == log[Len(log)]

Returned(op) == pc = "idle" /\ Len(log) > 0 /\ LastCall.op = op /\ LastCall.err = "none"

\* 8 blank rows + for each character (its trimmed rows + 1 blank row) + 8 blank rows
RECURSIVE StripLength(_)
StripLength(text_string) ==
    IF text_string = <<>> THEN 16
    ELSE Len(trim_whitespace(get_char_pixels(<<Head(text_string)>>))) + 1
         + StripLength(Tail(text_string))

(* C4: show_letter and show_message restore the rotation on every exit path:
   whenever such a call has ended, normally or with an exception, rotation is
   what it was when the call was entered. *)
C4_RotationRestored ==
    (pc = "idle" /\ Len(log) > 0 /\ LastCall.op \in {"show_letter", "show_message"})
    => rotation = LastCall.rotation

\* the frame accounting of show_message: what holds while it scrolls and when
\* it has returned
C9_Frames ==
    /\ pc \in {"sm_loop", "sm_sleep"} =>
          /\ Len(scroll_pixels) = StripLength(local.text_string)
          /\ \A r \in (1 .. 8) \cup (Len(scroll_pixels) - 7 .. Len(scroll_pixels)) :
                \A c \in 1 .. 8 : scroll_pixels[r][c] = colour_uint16(local.back_colour)
          /\ sleeps = i
          /\ writes = IF pc = "sm_sleep" THEN i + 1 ELSE i
          /\ i <= Len(scroll_pixels) - 8
    /\ pc = "sm_sleep" =>
          /\ i + 8 <= Len(scroll_pixels)
          /\ \A k \in Cells :
                get_pixels_result(rotation, fb)[k]
                  = Quantized(scroll_pixels[i + 1 + (k \div 8)][1 + (k % 8)])
    /\ Returned("show_message") =>
          /\ writes = StripLength(LastCall.args[1]) - 8
          /\ sleeps = writes

(* C9: a show_message call on a finite text ends, and when it returns it has
   written exactly len(strip) - 8 frames, strip being 8 blank rows, then each
   character's trimmed rows and one blank row, then 8 blank rows; frame i shows
   rows [i, i+8) of the strip, frames are written in increasing i, and one
   sleep follows each write. *)
C9_ScrollTerminates == []C9_Frames /\ ((pc # "idle") ~> (pc = "idle"))

\* a two-character message, entered at a rotation other than 0, has scrolled
\* through all its frames and returned
C9_Witness ==
    /\ Returned("show_message")
    /\ Len(LastCall.args[1]) = 2
    /\ LastCall.rotation # 0
    /\ writes = StripLength(LastCall.args[1]) - 8
    /\ writes > 8
    /\ sleeps = writes

(* C10: recolouring gives a pixel text_colour if and only if the source pixel
   is pure white (255, 255, 255); every other pixel, padding included, gets
   back_colour. *)
C10_RecolourPureWhite ==
    pc \in {"sm_loop", "sm_sleep", "sl_restore"} =>
        LET source == IF local.op = "show_message" THEN scroll_source(local.text_string)
                      ELSE letter_source(local.s)
        IN  /\ Len(scroll_pixels) = Len(source)
            /\ \A r \in 1 .. Len(source) : \A c \in 1 .. 8 :
                  scroll_pixels[r][c] = IF source[r][c] = White
                                        THEN colour_uint16(local.text_colour)
                                        ELSE colour_uint16(local.back_colour)

-----------------------------------------------------------------------------
(* The rotation protocol of the text renderer *)

\* the rotation a render entered at r draws with
Transient(r) == (r + 270) % 360

\* the frame a step of the running call hands to set_pixels
FrameDrawn ==
    IF LastCall.op = "show_message" THEN window(scroll_pixels, i)
    ELSE window(scroll_pixels', 0)

\* a step that writes a frame leaves rotation at the transient value, and the
\* device then shows the frame as seen under that rotation
C12_FrameWrite ==
    writes' = writes + 1 =>
        /\ rotation' = Transient(LastCall.rotation)
        /\ \A k \in Cells :
              get_pixels_result(Transient(LastCall.rotation), fb')[k]
                = Quantized(FrameDrawn[k])

C12_Restored ==
    \A op \in {"show_letter", "show_message"} :
        Returned(op) => rotation = LastCall.rotation

(* C12: text rendering follows the save / decrement / use / restore protocol:
   a show_letter or show_message call entered with rotation r writes every one
   of its frames while rotation is (r - 90) mod 360 (0 wraps to 270), and when
   the call completes normally rotation is r again, however many frames were
   drawn (a message of zero characters included). *)
C12_RotationProtocol == []C12_Restored /\ [][C12_FrameWrite]_vars

\* a letter and then a message of zero characters, both entered at rotation 0
\* and drawn at 270, have returned with rotation 0
C12_Witness ==
    /\ Returned("show_message")
    /\ Len(log) = 2
    /\ log[1].op = "show_letter" /\ log[1].err = "none" /\ log[1].rotation = 0
    /\ LastCall.args[1] = <<>>
    /\ LastCall.rotation = 0
    /\ writes = 8
    /\ rotation = 0

(* C13: in every reachable state of a driver instance, after any sequence
   of calls, failing calls and the states inside a render included, rotation
   is one of 0, 90, 180, 270; a set_rotation call with any other value raises
   an error and leaves rotation and the framebuffer unchanged. *)
C13_RotationEnumerated ==
    /\ rotation \in Rotations
    /\ \A n \in Calls :
          (log[n].op = "set_rotation" /\ log[n].args[1] \notin Rotations)
          => /\ log[n].err = "ValueError"
             /\ RotationAfter(n) = log[n].rotation
             /\ FbAfter(n) = log[n].fb

-----------------------------------------------------------------------------
(* Vocabulary of the two-thread properties *)

\* the render is past its wrap and before its restore
Drawing == {"sm_loop", "sm_sleep", "sl_restore"}

OtherCalls == IF log2 = <<>> THEN {} ELSE {Len(log2)}

\* the calls of the second thread that stored a rotation
Stores == {m \in 1 .. Len(log2) :
              log2[m].op = "set_rotation" /\ log2[m].args[1] \in Rotations}

\* no set_rotation of the second thread has stored during the render so far
Undisturbed(n) == \A m \in Stores : m < n => log2[m].render # "during"

\* a set_pixels(g) of the second thread that runs between the wrap and the
\* restore of a render entered at r finds the field at (r - 90) mod 360: the
\* device then shows g as read back under that rotation, and not under r
C14_TransientExposed ==
    \A n \in OtherCalls :
        (log2[n].op = "set_pixels" /\ log2[n].err = "none"
            /\ log2[n].at \in Drawing /\ Undisturbed(n))
        => /\ log2[n].rotation = Transient(log2[n].entered)
           /\ \A k \in Cells :
                 get_pixels_result(Transient(log2[n].entered), log2[n].after)[k]
                   = Quantized(log2[n].args[k])
           /\ \E k \in Cells :
                 get_pixels_result(log2[n].entered, log2[n].after)[k]
                   # Quantized(log2[n].args[k])

\* when both threads have finished and the last rotation the second thread
\* stored was stored during the render, the field holds what the render saved
C14_RestoreOverwrites ==
    (pc = "idle" /\ pc2 = "idle" /\ log # <<>> /\ LastCall.err = "none"
        /\ Stores # {}
        /\ \E m \in Stores : (\A q \in Stores : q <= m) /\ log2[m].render = "during")
    => rotation = LastCall.rotation

(* C14: unserialized concurrent calls on one driver instance race on the
   rotation field: a set_pixels of another thread that runs inside a
   show_message or show_letter is drawn with the transient (r - 90) rotation,
   and the render's final restore overwrites a set_rotation(r') made by
   another thread meanwhile, so that rotation is r and not r' once both calls
   have finished. *)
C14_RotationRace == C14_TransientExposed /\ C14_RestoreOverwrites

\* inside one show_message entered at rotation 0 the second thread has drawn
\* a grid at 270 and then stored 180; both have finished and rotation is 0
C14_Witness ==
    /\ Returned("show_message")
    /\ pc2 = "idle"
    /\ Len(log2) = 2
    /\ log2[1].op = "set_pixels" /\ log2[1].at = "sm_sleep"
    /\ log2[1].entered = 0 /\ log2[1].rotation = 270
    /\ log2[2].op = "set_rotation" /\ log2[2].args[1] = 180
    /\ log2[2].render = "during" /\ log2[2].err = "none"
    /\ LastCall.rotation = 0
    /\ rotation = 0

-----------------------------------------------------------------------------
(* Vocabulary of the glyph properties *)

IsBlackRow(row) == \A c \in 1 .. 8 : row[c] = Black

\* rows is glyph[a .. a + Len(rows) - 1], every row of the glyph outside that
\* range is black, and the first and the last row of rows are not
TrimmedAt(rows, a) ==
    /\ Len(rows) >= 1
    /\ a + Len(rows) - 1 <= 5
    /\ \A j \in 1 .. Len(rows) : rows[j] = glyph[a + j - 1]
    /\ \A q \in 1 .. 5 : (q < a \/ q > a + Len(rows) - 1) => IsBlackRow(glyph[q])
    /\ ~IsBlackRow(rows[1])
    /\ ~IsBlackRow(rows[Len(rows)])

AllBlack == \A q \in 1 .. 5 : IsBlackRow(glyph[q])

\* C11 as stated: an all-black glyph trims to zero rows
C11_TrimToZeroRows ==
    trimmed.returned =>
        IF AllBlack THEN Len(trimmed.rows) = 0
        ELSE \E a \in 1 .. 5 : TrimmedAt(trimmed.rows, a)

(* C11: _trim_whitespace removes exactly the leading and trailing all-black
   rows of a 5-row glyph and keeps every row from the first to the last
   non-black row, interior black rows included; an all-black glyph (e.g.
   space) is returned unchanged, with its 5 rows. *)
C11_TrimKeepsBlackGlyph ==
    trimmed.returned =>
        IF AllBlack THEN trimmed.rows = glyph /\ Len(trimmed.rows) = 5
        ELSE \E a \in 1 .. 5 : TrimmedAt(trimmed.rows, a)

\* a glyph with a leading black row, an interior black row and two trailing
\* black rows has been trimmed to its three middle rows
C11_Witness ==
    /\ trimmed.returned
    /\ IsBlackRow(glyph[1]) /\ ~IsBlackRow(glyph[2]) /\ IsBlackRow(glyph[3])
    /\ ~IsBlackRow(glyph[4]) /\ IsBlackRow(glyph[5])
    /\ trimmed.rows = <<glyph[2], glyph[3], glyph[4]>>

====
